---- MODULE Spec2Model ----
(***************************************************************************)
(* Model of OpenVINODetectionTask                                          *)
(* (otx/algorithms/detection/adapters/openvino/task.py): construction,     *)
(* load_config, load_inferencer, infer, explain, deploy and optimize.  One  *)
(* task object is built from one task environment; its methods run one at  *)
(* a time and each method is a chain of steps driven by pc.  SpecWrapper    *)
(* runs a task around a hand-built OpenVINOTileClassifierWrapper, SpecHook  *)
(* runs CustomMaskRCNN.load_state_dict_pre_hook.                            *)
(***************************************************************************)
EXTENDS Integers, Sequences, FiniteSets, TLC

VARIABLES
    env,        \* the TaskEnvironment handed to __init__ (never written)
    models,     \* the ModelEntity objects: data blobs and attributes
    task,       \* the OpenVINODetectionTask object's fields
    pc,         \* position inside the running method, "idle" between calls
    call,       \* arguments and locals of the running (or last) method call
    dataset,    \* the DatasetEntity handed to the running (or last) infer
    events,     \* what the running (or last) call did, in order
    outcome,    \* how the last call ended
    before,     \* task and models as they were when the running call began
    calls       \* number of method calls started so far

vars == <<env, models, task, pc, call, dataset, events, outcome, before, calls>>

(***************************************************************************)
(* Bounds                                                                  *)
(***************************************************************************)
MaxItems == 2       \* largest dataset handed to infer
MaxCalls == 2       \* method calls made on the task after construction
MaxClasses == 2     \* longest class list of a model or a checkpoint

(***************************************************************************)
(* Values                                                                  *)
(***************************************************************************)
None == "None"

TaskTypes == {"DETECTION", "INSTANCE_SEGMENTATION", "ROTATED_DETECTION", "CLASSIFICATION"}

OptimizationTypes == {"POT", "NNCF"}

ModelIds == {"m_env", "m_out"}

DatasetIds == {"ds_a", "ds_b"}

Keys == {"openvino.xml", "openvino.bin", "confidence_threshold", "label_schema.json",
         "config.json", "tile_classifier.xml", "tile_classifier.bin"}

Absent == "absent"

Tiling(t, c) == [enable_tiling |-> t, enable_tile_classifier |-> c]

\* ModelEntity.exportable_code: None, or the bytes of a zip archive, held
\* here as the set of the names written into it.
NoExportableCode == [zip |-> FALSE, files |-> {}]

\* ModelEntity as first built: no data, attributes of an unoptimized model.
EmptyModel ==
    [data |-> [k \in Keys |-> Absent],
     model_format |-> "BASE_FRAMEWORK",
     optimization_type |-> "NONE",
     optimization_methods |-> <<>>,
     precision |-> <<"FP32">>,
     exportable_code |-> NoExportableCode]

\* An exported OpenVINO IR: xml is "fp32_ir" or "int8_ir", tc says whether the
\* tile classifier was exported with it, cfg is the config.json blob.
ExportedModel(xml, tc, cfg) ==
    [EmptyModel EXCEPT
        !.data = [k \in Keys |->
            CASE k = "openvino.xml" -> xml
              [] k = "openvino.bin" -> "bin_of_" \o xml
              [] k = "confidence_threshold" -> "thr_of_" \o xml
              [] k = "label_schema.json" -> "labels"
              [] k = "config.json" -> cfg
              [] k \in {"tile_classifier.xml", "tile_classifier.bin"} ->
                    IF tc THEN "tile_classifier" ELSE Absent],
        !.model_format = "OPENVINO",
        !.optimization_type = IF xml = "int8_ir" THEN "POT" ELSE "MO",
        !.optimization_methods = IF xml = "int8_ir" THEN <<"QUANTIZATION">> ELSE <<>>,
        !.precision = IF xml = "int8_ir" THEN <<"INT8">> ELSE <<"FP32">>]

\* The models a task environment comes with: exported IRs, plain or already
\* quantized, with or without a tile classifier, and with the config.json
\* blobs load_config tells apart: none, b"", bytes that are no JSON, JSON
\* that is no dictionary, JSON of some or of all the configuration's keys.
EnvModels ==
    {ExportedModel("fp32_ir", FALSE, Absent),
     ExportedModel("fp32_ir", TRUE, Absent),
     ExportedModel("fp32_ir", FALSE, "empty"),
     ExportedModel("fp32_ir", FALSE, "not_json"),
     ExportedModel("fp32_ir", FALSE, "json_not_dict"),
     ExportedModel("fp32_ir", TRUE, "json_enable_tiling"),
     ExportedModel("fp32_ir", FALSE, "json_tiling_off"),
     ExportedModel("fp32_ir", TRUE, "json_tiling_tc"),
     ExportedModel("int8_ir", FALSE, Absent),
     ExportedModel("int8_ir", TRUE, "json_tiling_tc")}

\* The entities handed to optimize as output_model: a new one, or one that
\* already holds an export.
OutputModels == {EmptyModel, ExportedModel("fp32_ir", TRUE, Absent)}

HyperParameters == {Tiling(FALSE, FALSE), Tiling(TRUE, FALSE), Tiling(TRUE, TRUE)}

\* json.loads on a config.json blob that parses to a dictionary.
json_loads(blob) ==
    IF blob = "json_tiling_off" THEN Tiling(FALSE, FALSE)
    ELSE IF blob = "json_tiling_on" THEN Tiling(TRUE, FALSE)
    ELSE IF blob = "json_enable_tiling" THEN [enable_tiling |-> TRUE]
    ELSE Tiling(TRUE, TRUE)

\* merge_a_into_b: the values of dict_a replace those of dict_b under the
\* keys dict_b has.
merge_a_into_b(dict_a, dict_b) ==
    [k \in DOMAIN dict_b |-> IF k \in DOMAIN dict_a THEN dict_a[k] ELSE dict_b[k]]

\* config_to_bytes on the hyper-parameters.
config_to_bytes(hparams) ==
    IF ~hparams.enable_tiling THEN "json_tiling_off"
    ELSE IF ~hparams.enable_tile_classifier THEN "json_tiling_on"
    ELSE "json_tiling_tc"

(***************************************************************************)
(* ModelEntity.get_data: the blob under a key; a key never set raises      *)
(* KeyError.                                                               *)
(***************************************************************************)
has_data(m, key) == m.data[key] # Absent

get_data(m, key) == m.data[key]

set_data(m, key, blob) == [m EXCEPT !.data[key] = blob]

(***************************************************************************)
(* load_config: the hyper-parameters, with the model's config.json merged  *)
(* over them when it loads; any exception on the way is swallowed.  mods   *)
(* are the model entities and id the task's model (None for no model).     *)
(***************************************************************************)
\* The try body, lines 372-375: the exception it ends with, or "none", and
\* the value of the local config when it ends.
try_config_json(mods, id, config) ==
    IF id = None THEN [error |-> "none", config |-> config]
    ELSE IF ~has_data(mods[id], "config.json")
    THEN [error |-> "KeyError", config |-> config]
    ELSE LET blob == get_data(mods[id], "config.json") IN
    IF blob = "empty" THEN [error |-> "none", config |-> config]
    ELSE IF blob = "not_json" THEN [error |-> "JSONDecodeError", config |-> config]
    ELSE IF blob = "json_not_dict" THEN [error |-> "AttributeError", config |-> config]
    ELSE [error |-> "none", config |-> merge_a_into_b(json_loads(blob), config)]

\* Mutant: the except clause catches KeyError only.
load_config_except_key_error(mods, id, hparams) ==
    LET tried == try_config_json(mods, id, hparams)
    IN [error |-> IF tried.error = "KeyError" THEN "none" ELSE tried.error,
        config |-> tried.config]

\* The result carries the exception load_config ends with; except Exception
\* at line 376 leaves none.
load_config(mods, id, hparams) ==
    LET tried == try_config_json(mods, id, hparams)
    IN [error |-> "none", config |-> tried.config]

(***************************************************************************)
(* Inferencers                                                             *)
(***************************************************************************)
NoTiler == [classifier |-> FALSE, mode |-> "none"]

NoInferencer ==
    [class |-> "None", inner |-> "None", xml |-> Absent,
     confidence_threshold |-> "0.0", tiler |-> NoTiler]

\* The local variable inferencer of load_inferencer before any assignment.
Unbound == [NoInferencer EXCEPT !.class = "unbound"]

\* Mutant: rotated detection gets the inferencer of plain detection.
TypeInferencer_rotated_as_detection(task_type, xml, thr) ==
    LET made(class) == [class |-> class, inner |-> class, xml |-> xml,
                        confidence_threshold |-> thr, tiler |-> NoTiler]
    IN IF task_type \in {"DETECTION", "ROTATED_DETECTION"}
       THEN made("OpenVINODetectionInferencer")
       ELSE IF task_type = "INSTANCE_SEGMENTATION" THEN made("OpenVINOMaskInferencer")
       ELSE Unbound

\* The type-specific inferencer built at lines 403-408; the local stays
\* unbound when no branch matches.
TypeInferencer(task_type, xml, thr) ==
    LET made(class) == [class |-> class, inner |-> class, xml |-> xml,
                        confidence_threshold |-> thr, tiler |-> NoTiler]
    IN IF task_type = "DETECTION" THEN made("OpenVINODetectionInferencer")
       ELSE IF task_type = "INSTANCE_SEGMENTATION" THEN made("OpenVINOMaskInferencer")
       ELSE IF task_type = "ROTATED_DETECTION" THEN made("OpenVINORotatedRectInferencer")
       ELSE Unbound

\* OpenVINOTileClassifierWrapper.__init__: a classifier is built when either
\* tile classifier file is given.
OpenVINOTileClassifierWrapper(inferencer, model_file, weight_file, mode) ==
    [class |-> "OpenVINOTileClassifierWrapper", inner |-> inferencer.class,
     xml |-> inferencer.xml, confidence_threshold |-> inferencer.confidence_threshold,
     tiler |-> [classifier |-> (model_file # None \/ weight_file # None),
                mode |-> mode]]

Raise(error, thr) ==
    [ok |-> FALSE, error |-> error, inferencer |-> NoInferencer, confidence_threshold |-> thr]

Return(inferencer, thr) ==
    [ok |-> TRUE, error |-> "none", inferencer |-> inferencer, confidence_threshold |-> thr]

\* Mutant: the tile classifier is read whenever tiling is enabled.
tile_classifier_files_if_tiling(model, config) ==
    IF ~config.enable_tiling
    THEN [error |-> "none", model_file |-> None, weight_file |-> None]
    ELSE IF ~has_data(model, "tile_classifier.xml") \/ ~has_data(model, "tile_classifier.bin")
    THEN [error |-> "KeyError", model_file |-> None, weight_file |-> None]
    ELSE [error |-> "none", model_file |-> get_data(model, "tile_classifier.xml"),
          weight_file |-> get_data(model, "tile_classifier.bin")]

\* Lines 411-415: the tile classifier files handed to the wrapper, both None
\* unless enable_tile_classifier is set; get_data raises on a missing key.
tile_classifier_files(model, config) ==
    IF ~config.enable_tile_classifier
    THEN [error |-> "none", model_file |-> None, weight_file |-> None]
    ELSE IF ~has_data(model, "tile_classifier.xml") \/ ~has_data(model, "tile_classifier.bin")
    THEN [error |-> "KeyError", model_file |-> None, weight_file |-> None]
    ELSE [error |-> "none", model_file |-> get_data(model, "tile_classifier.xml"),
          weight_file |-> get_data(model, "tile_classifier.bin")]

\* Lines 392-434 of load_inferencer, on a model that is not None.  The
\* result carries the value self.confidence_threshold has when the method
\* ends, raised or not.
build_inferencer(model, config, task_type, old_thr) ==
    IF ~has_data(model, "confidence_threshold") THEN Raise("KeyError", old_thr)
    ELSE LET thr == get_data(model, "confidence_threshold") IN
    IF ~has_data(model, "openvino.xml") \/ ~has_data(model, "openvino.bin")
    THEN Raise("KeyError", thr)
    ELSE LET inferencer == TypeInferencer(task_type, get_data(model, "openvino.xml"), thr) IN
    IF config.enable_tiling
    THEN LET files == tile_classifier_files(model, config) IN
         IF files.error # "none" THEN Raise(files.error, thr)
         ELSE IF inferencer = Unbound THEN Raise("UnboundLocalError", thr)
         ELSE Return(OpenVINOTileClassifierWrapper(inferencer, files.model_file,
                                                   files.weight_file, "async"), thr)
    ELSE IF inferencer = Unbound THEN Raise("UnboundLocalError", thr)
    ELSE Return(inferencer, thr)

\* Mutant: a missing model is reported as deploy reports it, by ValueError.
load_inferencer_value_error(mods, id, config, task_type, old_thr) ==
    IF id = None THEN Raise("ValueError", old_thr)
    ELSE build_inferencer(mods[id], config, task_type, old_thr)

\* load_inferencer on a task whose fields are model (id of a ModelEntity, or
\* None), config, task_type and confidence_threshold.
load_inferencer(mods, id, config, task_type, old_thr) ==
    IF id = None THEN Raise("RuntimeError", old_thr)
    ELSE build_inferencer(mods[id], config, task_type, old_thr)

(***************************************************************************)
(* Initial state: an environment, two model entities, no task yet.         *)
(***************************************************************************)
Idle == [op |-> "none"]

NoDataset == [id |-> None, items |-> <<>>]

Init ==
    /\ \E tt \in TaskTypes, m \in {"m_env", None}, hp \in HyperParameters :
          env = [task_type |-> tt, model |-> m, hparams |-> hp]
    /\ \E m \in EnvModels, out \in OutputModels :
          models = [id \in ModelIds |-> IF id = "m_env" THEN m ELSE out]
    /\ task = [status |-> "unborn", model |-> None, task_type |-> "None",
               confidence_threshold |-> "0.0", config |-> Tiling(FALSE, FALSE),
               inferencer |-> NoInferencer]
    /\ pc = "idle"
    /\ call = Idle
    /\ dataset = NoDataset
    /\ events = <<>>
    /\ outcome = [op |-> "none", result |-> "none", ret |-> None]
    /\ before = [task |-> task, models |-> models]
    /\ calls = 0

(***************************************************************************)
(* OpenVINODetectionTask.__init__                                          *)
(***************************************************************************)
Construct ==
    /\ pc = "idle"
    /\ task.status = "unborn"
    /\ LET configured == load_config(models, env.model, env.hparams)
           config == configured.config
           loaded == IF configured.error # "none" THEN Raise(configured.error, "0.0")
                     ELSE load_inferencer(models, env.model, config, env.task_type, "0.0")
       IN /\ task' = IF loaded.ok
                     THEN [status |-> "ready", model |-> env.model,
                           task_type |-> env.task_type,
                           confidence_threshold |-> loaded.confidence_threshold,
                           config |-> config, inferencer |-> loaded.inferencer]
                     ELSE [task EXCEPT !.status = "failed", !.model = env.model,
                                       !.task_type = env.task_type, !.config = config,
                                       !.confidence_threshold = loaded.confidence_threshold]
          /\ outcome' = [op |-> "__init__",
                         result |-> IF loaded.ok THEN "returned" ELSE loaded.error,
                         ret |-> None]
    /\ UNCHANGED <<env, models, pc, call, dataset, events, before, calls>>

(***************************************************************************)
(* Method calls.  call holds the arguments and locals of the running call; *)
(* events lists, in order, the calls it made to the inferencer's predict   *)
(* and to the progress callback, each with the facts that held when made.  *)
(***************************************************************************)
NewCall(op) ==
    [op |-> op, optimization_type |-> "none", output_model |-> "none", params |-> "none",
     model |-> "none", compressed_model |-> "none", dataset |-> "none", i |-> 0]

Event(kind, value, facts) == [kind |-> kind, value |-> value, facts |-> facts]

Ended(op, result, ret) == [op |-> op, result |-> result, ret |-> ret]

ProgressValues(evs) ==
    [j \in 1..Len(SelectSeq(evs, LAMBDA e : e.kind = "update_progress")) |->
        SelectSeq(evs, LAMBDA e : e.kind = "update_progress")[j].value]

(***************************************************************************)
(* optimize                                                                *)
(***************************************************************************)
\* load_model on the IR written to the temporary directory.
load_model(xml) == xml

\* Mutant: the FakeQuantize search finds nothing.
get_nodes_by_type_nothing(model) == FALSE

\* get_nodes_by_type(model, ["FakeQuantize"]) is not empty.
get_nodes_by_type(model) == model = "int8_ir"

\* pipeline.run followed by compress_model_weights: DefaultQuantization
\* inserts FakeQuantize nodes.
compress_model(model) == "int8_ir"

\* What holds of the task and the running optimize call at this moment.
OptimizeFacts(t, c) ==
    (IF c.model # "none" /\ ~get_nodes_by_type(c.model) THEN {"fq_check_passed"} ELSE {})
    \cup (IF c.compressed_model # "none" THEN {"compressed"} ELSE {})
    \cup (IF t.model = c.output_model THEN {"model_replaced"} ELSE {})
    \cup (IF t.inferencer.xml = c.compressed_model THEN {"inferencer_reloaded"} ELSE {})

\* if optimization_parameters: optimization_parameters.update_progress(value, None)
optimize_progress(evs, t, c, value) ==
    IF c.params = "given"
    THEN Append(evs, Event("update_progress", value, OptimizeFacts(t, c)))
    ELSE evs

\* Mutant: the optimization type is not looked at.
optimize_check_any_type(optimization_type, t, mods) ==
    IF t.model = None THEN "RuntimeError"
    ELSE IF get_nodes_by_type(load_model(get_data(mods[t.model], "openvino.xml")))
         THEN "RuntimeError"
    ELSE "none"

\* Lines 618-639: the checks that end the call before anything is touched.
\* "none" when they all pass.
optimize_check(optimization_type, t, mods) ==
    IF optimization_type # "POT" THEN "ValueError"
    ELSE IF t.model = None THEN "RuntimeError"
    ELSE IF ~has_data(mods[t.model], "openvino.xml") \/ ~has_data(mods[t.model], "openvino.bin")
         THEN "KeyError"
    ELSE IF get_nodes_by_type(load_model(get_data(mods[t.model], "openvino.xml")))
         THEN "RuntimeError"
    ELSE "none"

\* Mutant: config.json is not written and the precision is left alone.
optimize_save_partly(m, compressed_model, thr, hparams) ==
    [set_data(set_data(set_data(set_data(m,
        "openvino.xml", compressed_model),
        "openvino.bin", "bin_of_" \o compressed_model),
        "confidence_threshold", thr),
        "label_schema.json", "labels")
     EXCEPT !.model_format = "OPENVINO",
            !.optimization_type = "POT",
            !.optimization_methods = <<"QUANTIZATION">>]

\* Lines 679-700: the data and attributes written to output_model.
optimize_save(m, compressed_model, thr, hparams) ==
    [set_data(set_data(set_data(set_data(set_data(m,
        "openvino.xml", compressed_model),
        "openvino.bin", "bin_of_" \o compressed_model),
        "confidence_threshold", thr),
        "label_schema.json", "labels"),
        "config.json", config_to_bytes(hparams))
     EXCEPT !.model_format = "OPENVINO",
            !.optimization_type = "POT",
            !.optimization_methods = <<"QUANTIZATION">>,
            !.precision = <<"INT8">>]

OptimizeCall(optimization_type, output_model, params) ==
    /\ pc = "idle"
    /\ task.status = "ready"
    /\ calls < MaxCalls
    /\ calls' = calls + 1
    /\ before' = [task |-> task, models |-> models]
    /\ events' = <<>>
    /\ LET error == optimize_check(optimization_type, task, models)
           started == [NewCall("optimize") EXCEPT
                          !.optimization_type = optimization_type,
                          !.output_model = output_model,
                          !.params = params]
       IN IF error # "none"
          THEN /\ call' = started
               /\ outcome' = Ended("optimize", error, None)
               /\ pc' = "idle"
          ELSE /\ call' = [started EXCEPT
                              !.model = load_model(get_data(models[task.model], "openvino.xml"))]
               /\ outcome' = Ended("optimize", "running", None)
               /\ pc' = "optimize_progress_10"
    /\ dataset' = NoDataset
    /\ UNCHANGED <<env, models, task>>

OptimizeProgress10 ==
    /\ pc = "optimize_progress_10"
    /\ events' = optimize_progress(events, task, call, 10)
    /\ pc' = "optimize_quantize"
    /\ UNCHANGED <<env, models, task, call, dataset, outcome, before, calls>>

OptimizeQuantize ==
    /\ pc = "optimize_quantize"
    /\ call' = [call EXCEPT !.compressed_model = compress_model(call.model)]
    /\ pc' = "optimize_progress_90"
    /\ UNCHANGED <<env, models, task, dataset, events, outcome, before, calls>>

OptimizeProgress90 ==
    /\ pc = "optimize_progress_90"
    /\ events' = optimize_progress(events, task, call, 90)
    /\ pc' = "optimize_save"
    /\ UNCHANGED <<env, models, task, call, dataset, outcome, before, calls>>

OptimizeSave ==
    /\ pc = "optimize_save"
    /\ models' = [models EXCEPT ![call.output_model] =
                     optimize_save(@, call.compressed_model, task.confidence_threshold,
                                   env.hparams)]
    /\ pc' = "optimize_reload"
    /\ UNCHANGED <<env, task, call, dataset, events, outcome, before, calls>>

\* Mutant: the inferencer is reloaded but self.model is not replaced.
optimize_reload_keeps_model(t, mods, output_model) ==
    LET loaded == load_inferencer(mods, output_model, t.config, t.task_type,
                                  t.confidence_threshold)
    IN [ok |-> loaded.ok, error |-> loaded.error,
        task |-> [t EXCEPT !.confidence_threshold = loaded.confidence_threshold,
                           !.inferencer = IF loaded.ok THEN loaded.inferencer ELSE @]]

\* Lines 702-703: self.model = output_model; self.inferencer = self.load_inferencer()
optimize_reload(t, mods, output_model) ==
    LET loaded == load_inferencer(mods, output_model, t.config, t.task_type,
                                  t.confidence_threshold)
    IN [ok |-> loaded.ok, error |-> loaded.error,
        task |-> [t EXCEPT !.model = output_model,
                           !.confidence_threshold = loaded.confidence_threshold,
                           !.inferencer = IF loaded.ok THEN loaded.inferencer ELSE @]]

OptimizeReload ==
    /\ pc = "optimize_reload"
    /\ LET r == optimize_reload(task, models, call.output_model)
       IN /\ task' = r.task
          /\ IF r.ok
             THEN pc' = "optimize_progress_100" /\ UNCHANGED outcome
             ELSE pc' = "idle" /\ outcome' = Ended("optimize", r.error, None)
    /\ UNCHANGED <<env, models, call, dataset, events, before, calls>>

OptimizeProgress100 ==
    /\ pc = "optimize_progress_100"
    /\ events' = optimize_progress(events, task, call, 100)
    /\ outcome' = Ended("optimize", "returned", None)
    /\ pc' = "idle"
    /\ UNCHANGED <<env, models, task, call, dataset, before, calls>>

(***************************************************************************)
(* infer                                                                   *)
(***************************************************************************)
\* IEEE-754 binary64 arithmetic on the values infer needs, with the 53-bit
\* significand held in three limbs <<a, b, c>> = a*2^36 + b*2^18 + c.
Limb == 2^18

\* Least k with i * 2^k >= n, for 1 <= i <= n.
RECURSIVE Shift(_, _)
Shift(i, n) == IF i >= n THEN 0 ELSE 1 + Shift(2 * i, n)

\* Round-to-nearest-even increment of a limb triple, carrying upward.
Incr(s) ==
    IF s[3] + 1 < Limb THEN <<s[1], s[2], s[3] + 1>>
    ELSE IF s[2] + 1 < Limb THEN <<s[1], s[2] + 1, 0>>
    ELSE <<s[1] + 1, 0, 0>>

\* i / n as a double: [sig, exp] with value sig * 2^(-52 - exp), sig in [2^52, 2^53].
float_div(i, n) ==
    LET k  == Shift(i, n)
        x  == i * 2^k                      \* n <= x < 2n
        a  == (x * 2^16) \div n
        ra == (x * 2^16) % n
        b  == (ra * Limb) \div n
        rb == (ra * Limb) % n
        c  == (rb * Limb) \div n
        rc == (rb * Limb) % n
        up == 2 * rc > n \/ (2 * rc = n /\ c % 2 = 1)
    IN [sig |-> IF up THEN Incr(<<a, b, c>>) ELSE <<a, b, c>>, exp |-> k]

\* int(q * 100) for a double q = float_div(i, n) <= 1: the product is rounded
\* to 53 bits (round-to-nearest-even) and then truncated to an integer.
int_times_100(q) ==
    LET c0 == q.sig[3] * 100
        b0 == (q.sig[2] * 100) + (c0 \div Limb)
        a0 == (q.sig[1] * 100) + (b0 \div Limb)
        p0 == c0 % Limb                     \* product limbs, base 2^18
        p1 == b0 % Limb
        p2 == a0 % Limb
        p3 == a0 \div Limb
        d  == IF p3 >= 2^5 THEN 7 ELSE 6     \* bits beyond 53: the product has 60 or 59
        low == p0 % 2^d
        half == 2^(d - 1)
        up == low > half \/ (low = half /\ (p0 \div 2^d) % 2 = 1)
        r0 == (p0 - low) + (IF up THEN 2^d ELSE 0)
        r1 == p1 + (r0 \div Limb)
        r2 == p2 + (r1 \div Limb)
        r3 == p3 + (r2 \div Limb)
    IN ((r3 * Limb) + (r2 % Limb)) \div 2^(16 + q.exp)

\* Mutant: integer division, i // n * 100.
progress_percent_floor_div(i, n) == (i \div n) * 100

\* int(i / dataset_size * 100), line 485.
progress_percent(i, n) == int_times_100(float_div(i, n))


\* A dataset item as handed to infer: its image, the annotations it already
\* has, and no metadata.
Item(j) == [image |-> j, annotations |-> <<"ground_truth">>,
            representation_vectors |-> 0, saliency_maps |-> 0]

\* The scene the inferencer predicts for an image.
predicted_scene(image) == "prediction_for_" \o ToString(image)

\* dataset_item.append_annotations(predicted_scene.annotations), line 460.
\* Mutant: the item's annotations are replaced.
replace_annotations(item, scene) == [item EXCEPT !.annotations = <<scene>>]

append_annotations(item, scene) == [item EXCEPT !.annotations = Append(@, scene)]

\* Mutant: is_evaluation is not looked at.
add_saliency_map_always(params) == TRUE

\* Lines 444-453.
add_saliency_map(params) ==
    IF params # "None" THEN params # "is_evaluation" ELSE TRUE

\* Tiler.predict(image, mode): the tiler runs in the mode it is handed and
\* asks its classifier, when it has one, about the tiles.
tiler_predict(tiler, mode) ==
    {"tiler_mode_" \o mode} \cup (IF tiler.classifier THEN {"classifier_invoked"} ELSE {})

\* OpenVINOTileClassifierWrapper.predict(image, mode="async"), lines 307-322:
\* mode_arg is the mode the caller passes, "default" when it passes none.
wrapper_predict(inferencer, mode_arg) ==
    tiler_predict(inferencer.tiler, IF mode_arg = "default" THEN "async" ELSE mode_arg)

\* self.inferencer.predict(dataset_item.numpy), lines 459 and 512: no mode is
\* passed.  features says whether the prediction came with a feature vector
\* and a saliency map.
predict(inferencer, image, features) ==
    Event("predict", image,
          (IF features THEN {"feature_vector", "saliency_map"} ELSE {})
          \cup (IF inferencer.class = "OpenVINOTileClassifierWrapper"
                THEN wrapper_predict(inferencer, "default") ELSE {}))

\* Lines 459-485, one pass of the loop over the i-th item.
infer_item(inferencer, item, i, dataset_size, params, features) ==
    LET predicted == predict(inferencer, item.image, features)
        scene     == predicted_scene(item.image)
        appended  == append_annotations(item, scene)
        with_vec  == IF features
                     THEN [appended EXCEPT !.representation_vectors = @ + 1]
                     ELSE appended
        with_map  == IF add_saliency_map(params) /\ features
                     THEN [with_vec EXCEPT !.saliency_maps = @ + 1]
                     ELSE with_vec
        facts     == IF Len(with_map.annotations) > Len(item.annotations)
                        /\ with_map.annotations[Len(with_map.annotations)] = scene
                     THEN {"appended"} ELSE {}
        progress  == Event("update_progress", progress_percent(i, dataset_size), facts)
    IN [item |-> with_map, events |-> <<predicted, progress>>]

InferCall(id, n, params) ==
    /\ pc = "idle"
    /\ task.status = "ready"
    /\ calls < MaxCalls
    /\ calls' = calls + 1
    /\ before' = [task |-> task, models |-> models]
    /\ events' = <<>>
    /\ dataset' = [id |-> id, items |-> [j \in 1..n |-> Item(j)]]
    /\ call' = [NewCall("infer") EXCEPT !.params = params, !.dataset = id]
    /\ outcome' = Ended("infer", "running", None)
    /\ pc' = "infer_loop"
    /\ UNCHANGED <<env, models, task>>

InferItem ==
    /\ pc = "infer_loop"
    /\ call.i < Len(dataset.items)
    /\ \E features \in BOOLEAN :
          LET i == call.i + 1
              r == infer_item(task.inferencer, dataset.items[i], i, Len(dataset.items),
                              call.params, features)
          IN /\ dataset' = [dataset EXCEPT !.items[i] = r.item]
             /\ events' = events \o r.events
             /\ call' = [call EXCEPT !.i = i]
    /\ UNCHANGED <<env, models, task, pc, outcome, before, calls>>

\* Lines 489-492: the average time per image divides by len(dataset).
infer_return(d) ==
    IF Len(d.items) = 0 THEN Ended("infer", "ZeroDivisionError", None)
    ELSE Ended("infer", "returned", d.id)

InferReturn ==
    /\ pc = "infer_loop"
    /\ call.i = Len(dataset.items)
    /\ outcome' = infer_return(dataset)
    /\ pc' = "idle"
    /\ UNCHANGED <<env, models, task, call, dataset, events, before, calls>>

(***************************************************************************)
(* explain                                                                 *)
(***************************************************************************)
\* Mutant: a prediction without a saliency map is let through.
saliency_map_is_none_ignored(features) == FALSE

\* if saliency_map is None, line 516.
saliency_map_is_none(features) == ~features

\* Lines 512-539, one pass of the loop over the i-th item: the prediction is
\* appended and progress reported before the saliency map is looked at.
explain_item(inferencer, item, i, dataset_size, features) ==
    LET predicted == predict(inferencer, item.image, features)
        appended  == append_annotations(item, predicted_scene(item.image))
        progress  == Event("update_progress", progress_percent(i, dataset_size), {"appended"})
    IN [raised |-> saliency_map_is_none(features),
        item |-> IF saliency_map_is_none(features) THEN appended
                 ELSE [appended EXCEPT !.saliency_maps = @ + 1],
        events |-> <<predicted, progress>>]

ExplainCall(id, n, params) ==
    /\ pc = "idle"
    /\ task.status = "ready"
    /\ calls < MaxCalls
    /\ calls' = calls + 1
    /\ before' = [task |-> task, models |-> models]
    /\ events' = <<>>
    /\ dataset' = [id |-> id, items |-> [j \in 1..n |-> Item(j)]]
    /\ call' = [NewCall("explain") EXCEPT !.params = params, !.dataset = id]
    /\ outcome' = Ended("explain", "running", None)
    /\ pc' = "explain_loop"
    /\ UNCHANGED <<env, models, task>>

ExplainItem ==
    /\ pc = "explain_loop"
    /\ call.i < Len(dataset.items)
    /\ \E features \in BOOLEAN :
          LET i == call.i + 1
              r == explain_item(task.inferencer, dataset.items[i], i, Len(dataset.items),
                                features)
          IN /\ dataset' = [dataset EXCEPT !.items[i] = r.item]
             /\ events' = events \o r.events
             /\ call' = [call EXCEPT !.i = i]
             /\ IF r.raised
                THEN pc' = "idle" /\ outcome' = Ended("explain", "RuntimeError", None)
                ELSE UNCHANGED <<pc, outcome>>
    /\ UNCHANGED <<env, models, task, before, calls>>

ExplainReturn ==
    /\ pc = "explain_loop"
    /\ call.i = Len(dataset.items)
    /\ outcome' = Ended("explain", "returned", dataset.id)
    /\ pc' = "idle"
    /\ UNCHANGED <<env, models, task, call, dataset, events, before, calls>>

(***************************************************************************)
(* deploy                                                                  *)
(***************************************************************************)
\* The files of the model_wrappers package, walked at lines 586-596.
ModelWrapperFiles ==
    {"python/model_wrappers/__init__.py", "python/model_wrappers/openvino_models.py"}

\* Mutant: the tile classifier is packed whenever tiling is enabled.
deploy_tile_classifier_if_tiling(config) == config.enable_tiling

\* Line 578.
deploy_tile_classifier(config) ==
    config.enable_tiling /\ config.enable_tile_classifier

\* Lines 571-605: the archive written, or the exception that ends the method
\* before output_model is touched.
deploy_archive(t, mods) ==
    IF t.model = None THEN [raised |-> "ValueError", files |-> {}]
    ELSE IF ~has_data(mods[t.model], "openvino.xml") \/ ~has_data(mods[t.model], "openvino.bin")
    THEN [raised |-> "KeyError", files |-> {}]
    ELSE IF deploy_tile_classifier(t.config)
            /\ (~has_data(mods[t.model], "tile_classifier.xml")
                \/ ~has_data(mods[t.model], "tile_classifier.bin"))
    THEN [raised |-> "KeyError", files |-> {}]
    ELSE [raised |-> "none",
          files |-> {"model/model.xml", "model/model.bin"}
                    \cup (IF deploy_tile_classifier(t.config)
                          THEN {"model/tile_classifier.xml", "model/tile_classifier.bin"}
                          ELSE {})
                    \cup {"model/config.json"}
                    \cup ModelWrapperFiles
                    \cup {"python/requirements.txt", "python/LICENSE",
                          "python/README.md", "python/demo.py"}]

Deploy(output_model) ==
    /\ pc = "idle"
    /\ task.status = "ready"
    /\ calls < MaxCalls
    /\ calls' = calls + 1
    /\ before' = [task |-> task, models |-> models]
    /\ events' = <<>>
    /\ dataset' = NoDataset
    /\ call' = [NewCall("deploy") EXCEPT !.output_model = output_model]
    /\ LET arch == deploy_archive(task, models)
       IN IF arch.raised # "none"
          THEN /\ outcome' = Ended("deploy", arch.raised, None)
               /\ UNCHANGED models
          ELSE /\ outcome' = Ended("deploy", "returned", None)
               /\ models' = [models EXCEPT ![output_model].exportable_code =
                                 [zip |-> TRUE, files |-> arch.files]]
    /\ UNCHANGED <<env, task, pc>>

Next ==
    \/ Construct
    \/ \E ot \in OptimizationTypes, out \in ModelIds, params \in {"None", "given"} :
          OptimizeCall(ot, out, params)
    \/ OptimizeProgress10
    \/ OptimizeQuantize
    \/ OptimizeProgress90
    \/ OptimizeSave
    \/ OptimizeReload
    \/ OptimizeProgress100
    \/ \E id \in DatasetIds, n \in 0..MaxItems,
          params \in {"None", "is_evaluation", "no_evaluation"} :
          InferCall(id, n, params)
    \/ InferItem
    \/ InferReturn
    \/ \E id \in DatasetIds, n \in 0..MaxItems, params \in {"None", "given"} :
          ExplainCall(id, n, params)
    \/ ExplainItem
    \/ ExplainReturn
    \/ \E out \in ModelIds : Deploy(out)

Spec == Init /\ [][Next]_vars

(***************************************************************************)
(* A task around a tile classifier wrapper built by hand, as                *)
(* TestTilingTileClassifier.test_openvino_sync builds it: the wrapper is    *)
(* constructed with a mode of the caller's choice and load_inferencer is    *)
(* patched to return it.                                                   *)
(***************************************************************************)
\* assert mode in ["async", "sync"], line 283.
mode_accepted(mode) == mode \in {"async", "sync"}

TestConstruct(mode, tile_classifier_file) ==
    /\ pc = "idle"
    /\ task.status = "unborn"
    /\ IF mode_accepted(mode)
       THEN /\ task' = [status |-> "ready", model |-> env.model,
                        task_type |-> env.task_type,
                        confidence_threshold |-> "0.0",
                        config |-> load_config(models, env.model, env.hparams).config,
                        inferencer |->
                            OpenVINOTileClassifierWrapper(
                                TypeInferencer("INSTANCE_SEGMENTATION", "mock", "0.0"),
                                tile_classifier_file, tile_classifier_file, mode)]
            /\ outcome' = Ended("__init__", "returned", None)
       ELSE /\ task' = [task EXCEPT !.status = "failed"]
            /\ outcome' = Ended("OpenVINOTileClassifierWrapper", "AssertionError", None)
    /\ UNCHANGED <<env, models, pc, call, dataset, events, before, calls>>

InitWrapper ==
    /\ Init
    /\ env.task_type = "INSTANCE_SEGMENTATION"
    /\ env.model = "m_env"
    /\ models["m_out"] = EmptyModel

NextWrapper ==
    \/ \E mode \in {"async", "sync", "batch"}, file \in {None, "tile_classifier"} :
          TestConstruct(mode, file)
    \/ \E id \in DatasetIds, n \in 0..MaxItems,
          params \in {"None", "is_evaluation", "no_evaluation"} :
          InferCall(id, n, params)
    \/ InferItem
    \/ InferReturn
    \/ \E id \in DatasetIds, n \in 0..MaxItems, params \in {"None", "given"} :
          ExplainCall(id, n, params)
    \/ ExplainItem
    \/ ExplainReturn

SpecWrapper == InitWrapper /\ [][NextWrapper]_vars

(***************************************************************************)
(* CustomMaskRCNN.load_state_dict_pre_hook                                 *)
(* (otx/mpa/modules/models/detectors/custom_maskrcnn_detector.py).         *)
(* A tensor is the sequence of its rows; Python's row r is row r + 1 here. *)
(***************************************************************************)
ClassNames == {"rectangle", "ellipse", "triangle"}

\* Class lists: up to MaxClasses names, none twice.
ClassLists ==
    {l \in UNION {[1..n -> ClassNames] : n \in 1..MaxClasses} :
        \A a, b \in DOMAIN l : l[a] = l[b] => a = b}

ParamNames ==
    {"roi_head.bbox_head.fc_cls.weight", "roi_head.bbox_head.fc_cls.bias",
     "roi_head.bbox_head.fc_reg.weight", "roi_head.bbox_head.fc_reg.bias"}

\* Mutant: the box regression rows are taken one per class.
param_strides_all_one == [name \in ParamNames |-> 1]

\* Lines 49-54.
param_strides ==
    [name \in ParamNames |->
        IF name \in {"roi_head.bbox_head.fc_cls.weight", "roi_head.bbox_head.fc_cls.bias"}
        THEN 1 ELSE 4]

\* The rows of a bbox head parameter for a list of num_classes classes:
\* fc_cls has one row per class and one for the background, fc_reg four rows
\* per class.  The rows of a tensor are numbered from base + 1.
HeadParam(name, num_classes, base) ==
    [r \in 1..(IF name \in {"roi_head.bbox_head.fc_cls.weight",
                            "roi_head.bbox_head.fc_cls.bias"}
               THEN num_classes + 1 ELSE 4 * num_classes) |-> base + r]

\* map_class_names: for each model class the index of the checkpoint class
\* of the same name, -1 when there is none.
map_class_names(model_classes, chkpt_classes) ==
    [m \in 1..Len(model_classes) |->
        IF \E c \in 1..Len(chkpt_classes) : chkpt_classes[c] = model_classes[m]
        THEN (CHOOSE c \in 1..Len(chkpt_classes) :
                 /\ chkpt_classes[c] = model_classes[m]
                 /\ \A b \in 1..(c - 1) : chkpt_classes[b] # model_classes[m]) - 1
        ELSE -1]

\* t[a:b], rows a .. b - 1 of Python, cut at the tensor's end.
Slice(t, a, b) ==
    [k \in 1..(IF b > Len(t) THEN (IF Len(t) > a THEN Len(t) - a ELSE 0) ELSE b - a)
        |-> t[a + k]]

\* dst[a:b].copy_(src): the rows a .. b - 1 of dst become src; the sizes agree.
CopyInto(dst, a, src) ==
    [r \in 1..Len(dst) |-> IF r > a /\ r <= a + Len(src) THEN src[r - a] ELSE dst[r]]

\* Lines 65-68: the rows of the matched classes, class by class from m on.
RECURSIVE copy_matched(_, _, _, _, _)
copy_matched(model_param, chkpt_param, model2chkpt, stride, m) ==
    IF m > Len(model2chkpt) THEN model_param
    ELSE LET c == model2chkpt[m]
             copied == IF c >= 0
                       THEN CopyInto(model_param, (m - 1) * stride,
                                     Slice(chkpt_param, c * stride, (c + 1) * stride))
                       ELSE model_param
         IN copy_matched(copied, chkpt_param, model2chkpt, stride, m + 1)

\* Lines 63-72: the model's parameter with the checkpoint's rows mixed in,
\* the background rows included when the parameter has any.
mix_weights(model_param, chkpt_param, model_classes, chkpt_classes, stride) ==
    LET matched == copy_matched(model_param, chkpt_param,
                                map_class_names(model_classes, chkpt_classes), stride, 1)
    IN IF Len(model_param) > Len(model_classes) * stride
       THEN CopyInto(matched, Len(model_classes) * stride,
                     Slice(chkpt_param, Len(chkpt_classes) * stride,
                           (Len(chkpt_classes) + 1) * stride))
       ELSE matched

\* Lines 56-75: the checkpoint's state dict as the hook leaves it.
load_state_dict_pre_hook(model_dict, model_classes, chkpt_classes, chkpt_dict, prefix) ==
    [chkpt_name \in DOMAIN chkpt_dict |->
        IF \E name \in ParamNames \cap DOMAIN model_dict : chkpt_name = prefix \o name
        THEN LET name == CHOOSE n \in ParamNames \cap DOMAIN model_dict :
                             chkpt_name = prefix \o n
             IN mix_weights(model_dict[name], chkpt_dict[chkpt_name],
                            model_classes, chkpt_classes, param_strides[name])
        ELSE chkpt_dict[chkpt_name]]

\* The state dicts handed to the hook: the model holds its parameters under
\* their names, the checkpoint under prefix + name; either may lack some.
ParamSets == {ParamNames, ParamNames \ {"roi_head.bbox_head.fc_reg.bias"}, {}}

Prefixes == {"", "module."}

InitHook ==
    /\ env = [task_type |-> "None", model |-> None, hparams |-> Tiling(FALSE, FALSE)]
    /\ models = [id \in ModelIds |-> EmptyModel]
    /\ task = [status |-> "unborn", model |-> None, task_type |-> "None",
               confidence_threshold |-> "0.0", config |-> Tiling(FALSE, FALSE),
               inferencer |-> NoInferencer]
    /\ pc = "idle"
    /\ dataset = NoDataset
    /\ events = <<>>
    /\ outcome = [op |-> "none", result |-> "none", ret |-> None]
    /\ calls = 0
    /\ \E model_classes \in ClassLists, chkpt_classes \in ClassLists,
          in_model \in ParamSets \ {{}}, in_chkpt \in ParamSets, prefix \in Prefixes :
          /\ call = [op |-> "load_state_dict_pre_hook",
                     model_classes |-> model_classes,
                     chkpt_classes |-> chkpt_classes,
                     prefix |-> prefix,
                     model_dict |-> [name \in in_model |->
                                        HeadParam(name, Len(model_classes), 0)],
                     chkpt_dict |-> [chkpt_name \in {prefix \o name : name \in in_chkpt} |->
                                        HeadParam(CHOOSE n \in in_chkpt : chkpt_name = prefix \o n,
                                                  Len(chkpt_classes), 100)]]
          /\ before = [chkpt_dict |-> call.chkpt_dict]

LoadStateDictPreHook ==
    /\ call.op = "load_state_dict_pre_hook"
    /\ outcome.op = "none"
    /\ call' = [call EXCEPT !.chkpt_dict =
                    load_state_dict_pre_hook(call.model_dict, call.model_classes,
                                             call.chkpt_classes, @, call.prefix)]
    /\ outcome' = Ended("load_state_dict_pre_hook", "returned", None)
    /\ UNCHANGED <<env, models, task, pc, dataset, events, before, calls>>

NextHook == LoadStateDictPreHook

SpecHook == InitHook /\ [][NextHook]_vars

(***************************************************************************)
(* Properties                                                              *)
(***************************************************************************)
Predictions == SelectSeq(events, LAMBDA e : e.kind = "predict")

Progress == SelectSeq(events, LAMBDA e : e.kind = "update_progress")

OptimizeReturned == outcome.op = "optimize" /\ outcome.result = "returned"

InferReturned == outcome.op = "infer" /\ outcome.result = "returned"

\* The task's model held FakeQuantize nodes when the running call began.
QuantizedBefore ==
    before.models[before.task.model].data["openvino.xml"] = "int8_ir"

Untouched == models = before.models /\ task = before.task

\* C1: optimize with an optimization_type other than POT raises ValueError;
\* no progress callback is invoked and output_model, the task's model and the
\* task's inferencer are as they were before the call.
C1_NonPotRaisesValueError ==
    (call.op = "optimize" /\ call.optimization_type # "POT") =>
        /\ pc = "idle"
        /\ outcome = Ended("optimize", "ValueError", None)
        /\ events = <<>>
        /\ models[call.output_model] = before.models[call.output_model]
        /\ task.model = before.task.model
        /\ models[task.model] = before.models[task.model]
        /\ task.inferencer = before.task.inferencer

C1_Witness ==
    /\ call.op = "optimize"
    /\ call.optimization_type = "NNCF"
    /\ outcome.result = "ValueError"
    /\ call.params = "given"

\* C2 as stated: optimize raises RuntimeError whenever the task's current
\* model contains FakeQuantize nodes, whatever the optimization type.
C2_AsStated ==
    (call.op = "optimize" /\ QuantizedBefore) =>
        outcome = Ended("optimize", "RuntimeError", None)

\* C2 amended: optimize called with optimization type POT on a task whose
\* model contains FakeQuantize nodes raises RuntimeError, also when that
\* model is the output of an earlier optimize; no progress callback has run,
\* nothing was written to any model, and the task is as it was.
C2_QuantizedRaisesRuntimeError ==
    (call.op = "optimize" /\ call.optimization_type = "POT" /\ QuantizedBefore) =>
        /\ pc = "idle"
        /\ outcome = Ended("optimize", "RuntimeError", None)
        /\ events = <<>>
        /\ Untouched

C2_Witness ==
    /\ call.op = "optimize"
    /\ call.optimization_type = "POT"
    /\ calls = 2
    /\ env.model = "m_env"
    /\ before.task.model = "m_out"
    /\ before.task.inferencer.xml = "int8_ir"
    /\ before.models["m_out"].optimization_type = "POT"
    /\ outcome.result = "RuntimeError"

\* C3: when optimize returns normally, output_model holds data under
\* openvino.xml, openvino.bin, confidence_threshold, label_schema.json and
\* config.json, and has model_format OPENVINO, optimization_type POT,
\* optimization_methods [QUANTIZATION] and precision [INT8].
C3_OutputModelWritten ==
    OptimizeReturned =>
        LET m == models[call.output_model]
        IN /\ \A k \in {"openvino.xml", "openvino.bin", "confidence_threshold",
                        "label_schema.json", "config.json"} : m.data[k] # "absent"
           /\ m.model_format = "OPENVINO"
           /\ m.optimization_type = "POT"
           /\ m.optimization_methods = <<"QUANTIZATION">>
           /\ m.precision = <<"INT8">>

C3_Witness ==
    /\ OptimizeReturned
    /\ before.models[call.output_model] = EmptyModel

\* C4: with optimization_parameters given, the progress values reported are
\* 10, 90, 100 in that order and all three once optimize has returned; 10 is
\* reported after the already-optimized check has passed, 90 after
\* quantization and weight compression, 100 after the task's model is
\* output_model and the inferencer has been reloaded from it.
C4_ProgressOrder ==
    (call.op = "optimize" /\ call.params = "given") =>
        /\ Len(Progress) = Len(events)
        /\ Len(events) <= 3
        /\ \A j \in 1..Len(events) : events[j].value = <<10, 90, 100>>[j]
        /\ Len(events) >= 1 => "fq_check_passed" \in events[1].facts
        /\ Len(events) >= 2 => {"fq_check_passed", "compressed"} \subseteq events[2].facts
        /\ Len(events) >= 3 =>
              {"fq_check_passed", "compressed", "model_replaced", "inferencer_reloaded"}
                  \subseteq events[3].facts
        /\ OptimizeReturned => Len(events) = 3

C4_Witness ==
    /\ OptimizeReturned
    /\ call.params = "given"
    /\ before.task.model # call.output_model
    /\ Len(events) = 3

\* C5: the inferencer of a task is an OpenVINODetectionInferencer for
\* DETECTION, an OpenVINOMaskInferencer for INSTANCE_SEGMENTATION and an
\* OpenVINORotatedRectInferencer for ROTATED_DETECTION, wrapped in an
\* OpenVINOTileClassifierWrapper exactly when enable_tiling is set in the
\* task's config.
C5_InferencerByTaskType ==
    task.status = "ready" =>
        /\ task.task_type \in {"DETECTION", "INSTANCE_SEGMENTATION", "ROTATED_DETECTION"}
        /\ task.task_type = "DETECTION" =>
              task.inferencer.inner = "OpenVINODetectionInferencer"
        /\ task.task_type = "INSTANCE_SEGMENTATION" =>
              task.inferencer.inner = "OpenVINOMaskInferencer"
        /\ task.task_type = "ROTATED_DETECTION" =>
              task.inferencer.inner = "OpenVINORotatedRectInferencer"
        /\ task.inferencer.class = "OpenVINOTileClassifierWrapper"
              <=> task.config.enable_tiling
        /\ ~task.config.enable_tiling => task.inferencer.class = task.inferencer.inner

C5_Witness ==
    /\ task.status = "ready"
    /\ task.task_type = "ROTATED_DETECTION"
    /\ task.config.enable_tiling
    /\ task.inferencer.class = "OpenVINOTileClassifierWrapper"
    /\ task.inferencer.inner = "OpenVINORotatedRectInferencer"

\* C6: with a task type that is none of DETECTION, INSTANCE_SEGMENTATION and
\* ROTATED_DETECTION, load_inferencer (on a model that holds the data it
\* reads) raises RuntimeError, with tiling enabled or not.
C6_UnknownTypeRaisesRuntimeError ==
    (/\ outcome.op = "__init__"
     /\ env.model # None
     /\ env.task_type \notin {"DETECTION", "INSTANCE_SEGMENTATION", "ROTATED_DETECTION"}
     /\ outcome.result # "KeyError") =>
        outcome.result = "RuntimeError"

\* C7: constructing a task from an environment without a model raises
\* RuntimeError, and a constructed task has a model and an inferencer.
C7_NoModelNoTask ==
    /\ (env.model = None /\ outcome.op = "__init__") =>
          (outcome.result = "RuntimeError" /\ task.status = "failed")
    /\ task.status = "ready" =>
          (env.model # None /\ task.model # None /\ task.inferencer.class # "None")

C7_Witness ==
    /\ env.model = None
    /\ task.status = "failed"
    /\ outcome = Ended("__init__", "RuntimeError", None)

\* C8: infer calls predict once per item, in dataset order; the annotations
\* predicted for an item are appended to that item only; the dataset
\* returned is the one given.
C8_PredictOncePerItem ==
    call.op = "infer" =>
        /\ Len(Predictions) = call.i
        /\ \A j \in 1..Len(Predictions) : Predictions[j].value = dataset.items[j].image
        /\ \A j \in 1..Len(dataset.items) :
              /\ dataset.items[j].image = j
              /\ dataset.items[j].annotations =
                    IF j <= call.i
                    THEN <<"ground_truth", "prediction_for_" \o ToString(j)>>
                    ELSE <<"ground_truth">>
        /\ InferReturned =>
              (call.i = Len(dataset.items) /\ outcome.ret = call.dataset
               /\ dataset.id = call.dataset)

C8_Witness ==
    /\ InferReturned
    /\ Len(dataset.items) >= 2
    /\ Len(Predictions) = Len(dataset.items)

\* C9: for n >= 1 items infer reports progress once per item, after that
\* item's prediction has been appended, with the value int(i / n * 100); the
\* values are non-decreasing, within 0..100, and the last one is 100.
C9_ProgressPerItem ==
    call.op = "infer" =>
        LET n == Len(dataset.items)
        IN /\ Len(events) = 2 * call.i
           /\ \A j \in 1..call.i :
                 /\ events[2 * j - 1].kind = "predict"
                 /\ events[2 * j].kind = "update_progress"
                 /\ "appended" \in events[2 * j].facts
                 /\ events[2 * j].value = progress_percent(j, n)
                 /\ events[2 * j].value \in 0..100
                 /\ events[2 * j].value * n <= 100 * j
                 /\ 100 * j < (events[2 * j].value + 2) * n
                 /\ j > 1 => events[2 * j - 2].value <= events[2 * j].value
           /\ InferReturned => (n >= 1 /\ call.i = n /\ events[2 * n].value = 100)

C9_Witness ==
    /\ InferReturned
    /\ Len(dataset.items) = 2
    /\ ProgressValues(events) = <<50, 100>>

\* C10: a saliency map is attached to an item only if its prediction
\* produced one and the call is not an evaluation; with is_evaluation true no
\* item receives a saliency map.
C10_SaliencyOnlyOutsideEvaluation ==
    call.op = "infer" =>
        /\ \A j \in 1..Len(dataset.items) :
              dataset.items[j].saliency_maps > 0 =>
                 /\ call.params # "is_evaluation"
                 /\ j <= Len(Predictions)
                 /\ "saliency_map" \in Predictions[j].facts
        /\ call.params = "is_evaluation" =>
              \A j \in 1..Len(dataset.items) : dataset.items[j].saliency_maps = 0

C10_Witness ==
    /\ call.op = "infer"
    /\ call.params = "None"
    /\ \E j \in 1..Len(dataset.items) :
          /\ dataset.items[j].saliency_maps = 1
          /\ "saliency_map" \in Predictions[j].facts

\* C11: explain raises RuntimeError at the first item whose prediction has
\* no saliency map and predicts no later item; when every prediction has one
\* it returns the dataset it was given with a saliency map on every item.
C11_ExplainStopsWithoutSaliency ==
    call.op = "explain" =>
        /\ Len(Predictions) = call.i
        /\ \A j \in 1..Len(Predictions) :
              /\ Predictions[j].value = j
              /\ "saliency_map" \notin Predictions[j].facts =>
                    (j = Len(Predictions) /\ pc = "idle"
                     /\ outcome = Ended("explain", "RuntimeError", None))
        /\ outcome.result = "RuntimeError" =>
              (call.i >= 1 /\ "saliency_map" \notin Predictions[call.i].facts)
        /\ outcome.result = "returned" =>
              /\ outcome.ret = call.dataset
              /\ dataset.id = call.dataset
              /\ call.i = Len(dataset.items)
              /\ \A j \in 1..Len(dataset.items) : dataset.items[j].saliency_maps = 1

C11_Witness ==
    /\ call.op = "explain"
    /\ outcome.result = "RuntimeError"
    /\ Len(dataset.items) = 2
    /\ Len(Predictions) = 1

TileClassifierFiles == {"model/tile_classifier.xml", "model/tile_classifier.bin"}

\* C12: after deploy, output_model.exportable_code is a zip archive (not
\* None) holding model/model.xml, model/model.bin, model/config.json, the
\* four python files and the model_wrappers files, and holding
\* model/tile_classifier.xml and model/tile_classifier.bin exactly when
\* enable_tiling and enable_tile_classifier are both set.
C12_DeployArchive ==
    (outcome.op = "deploy" /\ outcome.result = "returned") =>
        LET code == models[call.output_model].exportable_code
        IN /\ code.zip
           /\ {"model/model.xml", "model/model.bin", "model/config.json",
               "python/requirements.txt", "python/LICENSE", "python/README.md",
               "python/demo.py", "python/model_wrappers/__init__.py",
               "python/model_wrappers/openvino_models.py"} \subseteq code.files
           /\ IF task.config.enable_tiling /\ task.config.enable_tile_classifier
              THEN TileClassifierFiles \subseteq code.files
              ELSE TileClassifierFiles \cap code.files = {}

C12_Witness ==
    /\ outcome.op = "deploy"
    /\ outcome.result = "returned"
    /\ task.config.enable_tiling
    /\ task.config.enable_tile_classifier
    /\ TileClassifierFiles \subseteq models[call.output_model].exportable_code.files

\* The stride the claim gives each class-dependent parameter.
ClaimedStride(name) ==
    IF name \in {"roi_head.bbox_head.fc_cls.weight", "roi_head.bbox_head.fc_cls.bias"}
    THEN 1 ELSE 4

\* C13: for each of the four class-dependent parameters present in the model
\* and in the checkpoint, the hook leaves in the checkpoint a tensor of the
\* model parameter's shape whose rows of model class m equal the checkpoint's
\* rows of class c when the names of m and c match, and equal the model's
\* own rows when m matches no checkpoint class.
C13_ClassRowsRemapped ==
    outcome.op = "load_state_dict_pre_hook" =>
        \A name \in ParamNames :
            (name \in DOMAIN call.model_dict
             /\ (call.prefix \o name) \in DOMAIN before.chkpt_dict) =>
                LET mixed  == call.chkpt_dict[call.prefix \o name]
                    old    == before.chkpt_dict[call.prefix \o name]
                    own    == call.model_dict[name]
                    stride == ClaimedStride(name)
                IN /\ Len(mixed) = Len(own)
                   /\ \A m \in 1..Len(call.model_classes) :
                         /\ \A c \in 1..Len(call.chkpt_classes) :
                               call.model_classes[m] = call.chkpt_classes[c] =>
                                  \A k \in 1..stride :
                                      mixed[(m - 1) * stride + k] = old[(c - 1) * stride + k]
                         /\ (\A c \in 1..Len(call.chkpt_classes) :
                                call.model_classes[m] # call.chkpt_classes[c]) =>
                                  \A k \in 1..stride :
                                      mixed[(m - 1) * stride + k] = own[(m - 1) * stride + k]

C13_Witness ==
    /\ outcome.op = "load_state_dict_pre_hook"
    /\ call.prefix = "module."
    /\ call.model_classes = <<"ellipse", "triangle">>
    /\ call.chkpt_classes = <<"rectangle", "ellipse">>
    /\ "roi_head.bbox_head.fc_reg.weight" \in DOMAIN call.model_dict
    /\ "module.roi_head.bbox_head.fc_reg.weight" \in DOMAIN call.chkpt_dict
    /\ call.chkpt_dict["module.roi_head.bbox_head.fc_reg.weight"]
          = <<105, 106, 107, 108, 5, 6, 7, 8>>

\* C14: a wrapper is constructed with mode async or sync only, and every
\* predict call that infer or explain makes on a wrapper constructed with
\* mode m hands m to the tiler.
C14_TilerRunsInConstructedMode ==
    /\ (task.status = "ready" /\ task.inferencer.class = "OpenVINOTileClassifierWrapper") =>
          task.inferencer.tiler.mode \in {"async", "sync"}
    /\ (call.op \in {"infer", "explain"}
        /\ task.inferencer.class = "OpenVINOTileClassifierWrapper") =>
          \A j \in 1..Len(Predictions) :
              ("tiler_mode_" \o task.inferencer.tiler.mode) \in Predictions[j].facts

\* C15: a task's inferencer is the tiling wrapper exactly when its config
\* enables tiling, and the wrapper's tiler has a classifier exactly when the
\* config also enables the tile classifier; the tile classifier data is not
\* read otherwise, so its absence fails the construction only when both are
\* set; every tiled prediction invokes the classifier exactly when the tiler
\* has one.
C15_ClassifierOnlyWhenBothEnabled ==
    /\ task.status = "ready" =>
          /\ (task.inferencer.class = "OpenVINOTileClassifierWrapper")
                <=> task.config.enable_tiling
          /\ task.inferencer.tiler.classifier
                <=> (task.config.enable_tiling /\ task.config.enable_tile_classifier)
    /\ (/\ task.status = "failed"
        /\ outcome = Ended("__init__", "KeyError", None)
        /\ \A k \in {"confidence_threshold", "openvino.xml", "openvino.bin"} :
              has_data(models[task.model], k)) =>
          /\ task.config.enable_tiling /\ task.config.enable_tile_classifier
          /\ \E k \in {"tile_classifier.xml", "tile_classifier.bin"} :
                ~has_data(models[task.model], k)
    /\ (call.op \in {"infer", "explain"}) =>
          \A j \in 1..Len(Predictions) :
              ("classifier_invoked" \in Predictions[j].facts)
                 <=> task.inferencer.tiler.classifier

C15_Witness ==
    /\ call.op = "infer"
    /\ task.config = Tiling(TRUE, TRUE)
    /\ task.inferencer.tiler.classifier
    /\ \E j \in 1..Len(Predictions) : "classifier_invoked" \in Predictions[j].facts

\* C16: construction never ends with an exception of load_config (a failed
\* parse or merge of config.json, or its KeyError), and the task's config is
\* the hyper-parameters when the model is None, has no or empty config.json,
\* or config.json does not load, and the hyper-parameters overridden by the
\* values of config.json when it loads.
C16_LoadConfigNeverRaises ==
    outcome.op = "__init__" =>
        LET blob == IF env.model = None THEN Absent
                    ELSE models[env.model].data["config.json"]
        IN /\ outcome.result \notin {"JSONDecodeError", "AttributeError"}
           /\ outcome.result = "KeyError" =>
                 \E k \in Keys \ {"config.json"} : models[env.model].data[k] = Absent
           /\ blob \in {Absent, "empty", "not_json", "json_not_dict"} =>
                 task.config = env.hparams
           /\ blob = "json_tiling_off" => task.config = Tiling(FALSE, FALSE)
           /\ blob = "json_tiling_on" => task.config = Tiling(TRUE, FALSE)
           /\ blob = "json_tiling_tc" => task.config = Tiling(TRUE, TRUE)
           /\ blob = "json_enable_tiling" =>
                 task.config = Tiling(TRUE, env.hparams.enable_tile_classifier)

C16_Witness ==
    /\ outcome = Ended("__init__", "returned", None)
    /\ models[env.model].data["config.json"] = "not_json"
    /\ env.hparams = Tiling(TRUE, FALSE)
    /\ task.config = env.hparams

====
